---- MODULE Spec2Model ----
(***************************************************************************)
(* A model of fibonacci.py: the generator generate_fibonacci(n), stepped   *)
(* statement by statement, and the reporter main(), which calls it once    *)
(* and prints the report line by line.  The module can be loaded by an     *)
(* importer, which calls generate_fibonacci with arguments of its own, or  *)
(* run as a script, which runs main.                                       *)
(***************************************************************************)
EXTENDS Integers, Sequences, FiniteSets, TLC

VARIABLES
    pc,           \* position of the running generate_fibonacci call
    caller,       \* who made the running call: "none", "lib" or "main"
    n,            \* generate_fibonacci's parameter
    fibonacci,    \* generate_fibonacci's local list; line 21 binds it, and no
                  \* step reads it before that
    i,            \* the loop variable of line 23
    iters,        \* executions of the loop body in the running call
    result,       \* the value the call returns
    err,          \* the exception raised, "none" when there is none
    log,          \* the completed calls, in order: [n, result]
    mainpc,       \* position of main
    main_n,       \* main's local n
    fib_numbers,  \* main's local fib_numbers
    k,            \* the index enumerate yields on line 37
    out,          \* the lines written to standard output, in order
    mainCalls,    \* calls of generate_fibonacci made by main
    exit          \* the exit status of the script run, -1 while there is none

vars == <<pc, caller, n, fibonacci, i, iters, result, err, log,
          mainpc, main_n, fib_numbers, k, out, mainCalls, exit>>

genVars == <<pc, caller, n, fibonacci, i, iters, result>>
mainVars == <<mainpc, main_n, fib_numbers, k, out, mainCalls, exit>>

----------------------------------------------------------------------------
(* Bounds of the model. *)

\* the importer passes arguments -MaxNeg .. MaxN
MaxNeg == 2
MaxN == 5
\* calls of generate_fibonacci in one behaviour
MaxCalls == 3

Inputs == (0 - MaxNeg) .. MaxN

(* Program constants. *)

\* line 31: n = 20
N == 20
\* lines 35 and 40: "-" * 40
SepWidth == 40

----------------------------------------------------------------------------
(* Python lists, indexed from 0, a negative index counting from the end. *)

InRange(s, j) == (0 - Len(s)) <= j /\ j < Len(s)

At(s, j) == IF j >= 0 THEN s[j + 1] ELSE s[Len(s) + j + 1]

----------------------------------------------------------------------------
(* generate_fibonacci, lines 6 to 26. *)

\* line 16: if n <= 0 (IsNonPositiveLt: the faulty test n < 0)
IsNonPositiveLt(v) == v < 0
IsNonPositive(v) == v <= 0

\* line 18: elif n == 1 (IsOneTwo: the faulty test n == 2)
IsOneTwo(v) == v = 2
IsOne(v) == v = 1

\* line 19: return [0] (SingletonOne: the faulty value [1])
SingletonOne == <<1>>
Singleton == <<0>>

\* line 21: [0, 1] (SeedsOnes: the faulty seeds [1, 1])
SeedsOnes == <<1, 1>>
Seeds == <<0, 1>>

\* line 23: range(2, n) starts at 2 and yields i while i < n
\* (HasNextLe: the faulty bound i <= n)
RangeStart == 2
HasNextLe(j, v) == j <= v
HasNext(j, v) == j < v

\* line 24: fibonacci[i-1] + fibonacci[i-2]
\* (NextTermDouble, NextTermSkip: faulty sums that read the wrong element)
ReadsInRange(s, j) == InRange(s, j - 1) /\ InRange(s, j - 2)
NextTermDouble(s, j) == At(s, j - 1) + At(s, j - 1)
NextTermSkip(s, j) == At(s, j - 1) + At(s, j - 3)
NextTerm(s, j) == At(s, j - 1) + At(s, j - 2)

\* the call: the parameter is bound and control is at line 16
Enter(v, who) ==
    /\ pc = "idle"
    /\ err = "none"
    /\ Len(log) < MaxCalls
    /\ pc' = "line16"
    /\ caller' = who
    /\ n' = v
    /\ iters' = 0
    /\ UNCHANGED <<fibonacci, i, result, err, log>>

\* an importer calls generate_fibonacci(v)
Call(v) ==
    /\ mainpc \in {"init", "done"}
    /\ Enter(v, "lib")
    /\ UNCHANGED mainVars

\* lines 16-17: if n <= 0: return []
ReturnEmpty ==
    /\ pc = "line16"
    /\ IsNonPositive(n)
    /\ result' = <<>>
    /\ pc' = "ret"
    /\ UNCHANGED <<caller, n, fibonacci, i, iters, err, log>>
    /\ UNCHANGED mainVars

\* lines 18-19: elif n == 1: return [0]
ReturnOne ==
    /\ pc = "line16"
    /\ ~IsNonPositive(n)
    /\ IsOne(n)
    /\ result' = Singleton
    /\ pc' = "ret"
    /\ UNCHANGED <<caller, n, fibonacci, i, iters, err, log>>
    /\ UNCHANGED mainVars

\* the faulty variant of Seed: a list kept from one call to the next instead
\* of a fresh one
SeedShared ==
    /\ pc = "line16"
    /\ ~IsNonPositive(n)
    /\ ~IsOne(n)
    /\ fibonacci' = IF Len(fibonacci) >= 2 THEN fibonacci ELSE Seeds
    /\ i' = RangeStart
    /\ pc' = "loop"
    /\ UNCHANGED <<caller, n, iters, result, err, log>>
    /\ UNCHANGED mainVars

\* line 21: fibonacci = [0, 1], a fresh list, and the loop of line 23 starts
Seed ==
    /\ pc = "line16"
    /\ ~IsNonPositive(n)
    /\ ~IsOne(n)
    /\ fibonacci' = Seeds
    /\ i' = RangeStart
    /\ pc' = "loop"
    /\ UNCHANGED <<caller, n, iters, result, err, log>>
    /\ UNCHANGED mainVars

\* lines 23-24: one iteration; a read out of range raises IndexError
LoopStep ==
    /\ pc = "loop"
    /\ HasNext(i, n)
    /\ IF ReadsInRange(fibonacci, i)
       THEN /\ fibonacci' = Append(fibonacci, NextTerm(fibonacci, i))
            /\ i' = i + 1
            /\ iters' = iters + 1
            /\ UNCHANGED <<pc, err>>
       ELSE /\ err' = "IndexError"
            /\ pc' = "raised"
            /\ UNCHANGED <<fibonacci, i, iters>>
    /\ UNCHANGED <<caller, n, result, log>>
    /\ UNCHANGED mainVars

\* lines 23 and 26: the range is exhausted, return fibonacci
LoopExit ==
    /\ pc = "loop"
    /\ ~HasNext(i, n)
    /\ result' = fibonacci
    /\ pc' = "ret"
    /\ UNCHANGED <<caller, n, fibonacci, i, iters, err, log>>
    /\ UNCHANGED mainVars

\* the call returns to the importer
ReturnToLib ==
    /\ pc = "ret"
    /\ caller = "lib"
    /\ log' = Append(log, [n |-> n, result |-> result])
    /\ pc' = "idle"
    /\ caller' = "none"
    /\ UNCHANGED <<n, fibonacci, i, iters, result, err>>
    /\ UNCHANGED mainVars

----------------------------------------------------------------------------
(* Formatting: f-strings of integers and string repetition. *)

Digit(d) == <<"0", "1", "2", "3", "4", "5", "6", "7", "8", "9">>[d + 1]

RECURSIVE Str(_)
Str(v) ==
    IF v < 0 THEN "-" \o Str(0 - v)
    ELSE IF v < 10 THEN Digit(v)
    ELSE Str(v \div 10) \o Digit(v % 10)

RECURSIVE Repeat(_, _)
Repeat(s, c) == IF c <= 0 THEN "" ELSE s \o Repeat(s, c - 1)

\* line 34
Header(v) == "The first " \o Str(v) \o " Fibonacci numbers are:"

\* lines 35 and 40
Separator == Repeat("-", SepWidth)

\* line 38 (ItemSwapped: the faulty line with index and value exchanged)
ItemSwapped(j, num) == "F(" \o Str(num) \o "): " \o Str(j)
Item(j, num) == "F(" \o Str(j) \o "): " \o Str(num)

\* line 41: fib_numbers[-1] (LastFirst: the faulty index 0)
LastFirst(s) == At(s, 0)
Last(s) == At(s, 0 - 1)

\* line 41
Summary(v, last) == "The " \o Str(v) \o "th Fibonacci number is: " \o Str(last)

----------------------------------------------------------------------------
(* main, lines 29 to 41. *)

\* line 45 (or an importer calling main()): main starts; line 31: n = 20
MainStart ==
    /\ mainpc = "init"
    /\ pc = "idle"
    /\ err = "none"
    /\ Len(log) < MaxCalls
    /\ main_n' = N
    /\ mainpc' = "line32"
    /\ UNCHANGED <<fib_numbers, k, out, mainCalls, exit>>
    /\ UNCHANGED <<err, log>>
    /\ UNCHANGED genVars

\* line 32: the call generate_fibonacci(n)
MainCall ==
    /\ mainpc = "line32"
    /\ Enter(main_n, "main")
    /\ mainCalls' = mainCalls + 1
    /\ mainpc' = "called"
    /\ UNCHANGED <<main_n, fib_numbers, k, out, exit>>

\* line 32: the call returns and fib_numbers is bound
ReturnToMain ==
    /\ pc = "ret"
    /\ caller = "main"
    /\ mainpc = "called"
    /\ log' = Append(log, [n |-> n, result |-> result])
    /\ pc' = "idle"
    /\ caller' = "none"
    /\ fib_numbers' = result
    /\ mainpc' = "line34"
    /\ UNCHANGED <<n, fibonacci, i, iters, result, err>>
    /\ UNCHANGED <<main_n, k, out, mainCalls, exit>>

\* line 34
PrintHeader ==
    /\ mainpc = "line34"
    /\ out' = Append(out, Header(main_n))
    /\ mainpc' = "line35"
    /\ UNCHANGED <<main_n, fib_numbers, k, mainCalls, exit>>
    /\ UNCHANGED <<err, log>>
    /\ UNCHANGED genVars

\* line 35, and enumerate starts at index 0
PrintSeparator ==
    /\ mainpc = "line35"
    /\ out' = Append(out, Separator)
    /\ k' = 0
    /\ mainpc' = "line37"
    /\ UNCHANGED <<main_n, fib_numbers, mainCalls, exit>>
    /\ UNCHANGED <<err, log>>
    /\ UNCHANGED genVars

\* lines 37-38: one element of enumerate(fib_numbers)
PrintItem ==
    /\ mainpc = "line37"
    /\ k < Len(fib_numbers)
    /\ out' = Append(out, Item(k, At(fib_numbers, k)))
    /\ k' = k + 1
    /\ UNCHANGED <<mainpc, main_n, fib_numbers, mainCalls, exit>>
    /\ UNCHANGED <<err, log>>
    /\ UNCHANGED genVars

\* lines 37 and 40: enumerate is exhausted, the closing separator
PrintClosing ==
    /\ mainpc = "line37"
    /\ k >= Len(fib_numbers)
    /\ out' = Append(out, Separator)
    /\ mainpc' = "line41"
    /\ UNCHANGED <<main_n, fib_numbers, k, mainCalls, exit>>
    /\ UNCHANGED <<err, log>>
    /\ UNCHANGED genVars

\* line 41: fib_numbers[-1] raises IndexError on an empty list; otherwise the
\* summary is printed, main returns and the script exits with status 0
PrintSummary ==
    /\ mainpc = "line41"
    /\ IF InRange(fib_numbers, 0 - 1)
       THEN /\ out' = Append(out, Summary(main_n, Last(fib_numbers)))
            /\ mainpc' = "done"
            /\ exit' = 0
            /\ UNCHANGED err
       ELSE /\ err' = "IndexError"
            /\ mainpc' = "raised"
            /\ exit' = 1
            /\ UNCHANGED out
    /\ UNCHANGED <<main_n, fib_numbers, k, mainCalls>>
    /\ UNCHANGED log
    /\ UNCHANGED genVars

----------------------------------------------------------------------------

Init ==
    /\ pc = "idle"
    /\ caller = "none"
    /\ n = 0
    /\ fibonacci = <<>>
    /\ i = 0
    /\ iters = 0
    /\ result = <<>>
    /\ err = "none"
    /\ log = <<>>
    /\ mainpc = "init"
    /\ main_n = 0
    /\ fib_numbers = <<>>
    /\ k = 0
    /\ out = <<>>
    /\ mainCalls = 0
    /\ exit = 0 - 1

Next ==
    \/ \E v \in Inputs : Call(v)
    \/ ReturnEmpty
    \/ ReturnOne
    \/ Seed
    \/ LoopStep
    \/ LoopExit
    \/ ReturnToLib
    \/ MainStart
    \/ MainCall
    \/ ReturnToMain
    \/ PrintHeader
    \/ PrintSeparator
    \/ PrintItem
    \/ PrintClosing
    \/ PrintSummary

Spec == Init /\ [][Next]_vars

\* a sequential program keeps running while it has a step to take
FairSpec == Spec /\ WF_vars(Next)

----------------------------------------------------------------------------
(* The reference Fibonacci function and the properties checked. *)

RECURSIVE F(_)
F(j) == IF j = 0 THEN 0 ELSE IF j = 1 THEN 1 ELSE F(j - 1) + F(j - 2)

Reference(v) == [j \in 1 .. v |-> F(j - 1)]

First5 == <<0, 1, 1, 2, 3>>

First20 == <<0, 1, 1, 2, 3, 5, 8, 13, 21, 34, 55, 89, 144, 233, 377, 610,
             987, 1597, 2584, 4181>>

IsPrefix(s, t) == Len(s) <= Len(t) /\ \A j \in 1 .. Len(s) : s[j] = t[j]

Returning == pc = "ret"

\* C1: for every n >= 2 the call returns [F(0), ..., F(n-1)] of the reference
\* Fibonacci function; n = 5 returns [0,1,1,2,3] and n = 20 returns the twenty
\* listed values, the last of which is 4181.
C1_ReturnsReference ==
    Returning /\ n >= 2 =>
        /\ result = Reference(n)
        /\ n = 5 => result = First5
        /\ n = 20 => result = First20 /\ result[Len(result)] = 4181

C1_Witness ==
    /\ Returning /\ n = 20 /\ result = First20
    /\ \E e \in 1 .. Len(log) : log[e].n = 5 /\ log[e].result = First5

\* C2: for every n >= 1 the returned sequence has exactly n elements, also for
\* n = 1 and n = 2, where the loop body never runs.
C2_LengthIsN ==
    Returning /\ n >= 1 =>
        /\ Len(result) = n
        /\ n <= 2 => iters = 0

C2_Witness ==
    /\ Returning /\ n = 2 /\ Len(result) = 2 /\ iters = 0
    /\ \E e \in 1 .. Len(log) : log[e].n = 1 /\ Len(log[e].result) = 1
    /\ \E e \in 1 .. Len(log) : log[e].n = MaxN /\ Len(log[e].result) = MaxN

Recurrence(s, j) == At(s, j) = At(s, j - 1) + At(s, j - 2)

\* C3: for every n >= 2 and every index i with 2 <= i < n the returned list has
\* result[i] = result[i-1] + result[i-2], and the list under construction
\* satisfies the same at every index it has after every iteration of the loop.
C3_Recurrence ==
    /\ pc = "loop" => \A j \in 2 .. (Len(fibonacci) - 1) : Recurrence(fibonacci, j)
    /\ Returning /\ n >= 2 =>
           \A j \in 2 .. (n - 1) : InRange(result, j) /\ Recurrence(result, j)

C3_Witness ==
    /\ pc = "loop" /\ iters >= 2 /\ i < n
    /\ Len(fibonacci) = 4 /\ Recurrence(fibonacci, 3)

\* C4: for every n <= 0 the call returns the empty sequence, raises nothing and
\* never enters the loop.
C4_NonPositiveEmpty ==
    (pc # "idle" /\ n <= 0) =>
        /\ pc \in {"line16", "ret"}
        /\ err = "none"
        /\ iters = 0
        /\ Returning => result = <<>>

C4_Witness ==
    /\ Returning /\ n < 0 /\ result = <<>>
    /\ \E e \in 1 .. Len(log) : log[e].n = 0 /\ log[e].result = <<>>

\* C5: n = 1 returns exactly [0] and n = 2 returns exactly [0, 1].
C5_Seeds ==
    /\ Returning /\ n = 1 => result = <<0>>
    /\ Returning /\ n = 2 => result = <<0, 1>>

C5_Witness ==
    /\ Returning /\ n = 2 /\ result = <<0, 1>>
    /\ \E e \in 1 .. Len(log) : log[e].n = 1 /\ log[e].result = <<0>>

\* C6: two calls with the same n return identical sequences, whatever calls
\* with other arguments come before or between them.
C6_SameArgumentSameResult ==
    /\ \A a, b \in 1 .. Len(log) :
           log[a].n = log[b].n => log[a].result = log[b].result
    /\ Returning =>
           \A a \in 1 .. Len(log) : log[a].n = n => log[a].result = result

C6_Witness ==
    /\ Len(log) = 3
    /\ log[1].n = 3 /\ log[2].n = 4 /\ log[3].n = 3
    /\ log[1].result = log[3].result

ExpectedOutput ==
    << "The first 20 Fibonacci numbers are:",
       "----------------------------------------",
       "F(0): 0", "F(1): 1", "F(2): 1", "F(3): 2", "F(4): 3", "F(5): 5",
       "F(6): 8", "F(7): 13", "F(8): 21", "F(9): 34", "F(10): 55",
       "F(11): 89", "F(12): 144", "F(13): 233", "F(14): 377", "F(15): 610",
       "F(16): 987", "F(17): 1597", "F(18): 2584", "F(19): 4181",
       "----------------------------------------",
       "The 20th Fibonacci number is: 4181" >>

\* C7: main prints, in this order and nothing else, a header, a separator of
\* 40 dashes, the 20 lines "F(i): value" for i = 0 .. 19 with value the i-th
\* element of the generated sequence, the same separator and the summary line
\* with 4181; nothing follows the summary line.
C7_OutputOrder ==
    /\ IsPrefix(out, ExpectedOutput)
    /\ mainpc = "line37" =>
           /\ Len(out) = 2 + k
           /\ \A j \in 0 .. (k - 1) : out[3 + j] = Item(j, At(fib_numbers, j))
    /\ mainpc = "done" =>
           /\ out = ExpectedOutput
           /\ Len(out[2]) = 40
           /\ out[23] = out[2]
           /\ Cardinality({j \in 1 .. Len(out) : out[j] = out[2]}) = 2

C7_Witness == mainpc = "done" /\ Len(out) = 24 /\ out[24] = ExpectedOutput[24]

C8_Safe ==
    /\ err = "none"
    /\ mainpc # "raised"
    /\ exit \in {0 - 1, 0}
    /\ mainCalls = (IF mainpc \in {"init", "line32"} THEN 0 ELSE 1)
    /\ caller = "main" => n = 20
    /\ mainpc = "line41" => InRange(fib_numbers, 0 - 1)
    /\ mainpc = "done" =>
           /\ exit = 0
           /\ out[Len(out)] = Summary(20, fib_numbers[Len(fib_numbers)])
           /\ out[Len(out) - 2] = Item(19, fib_numbers[Len(fib_numbers)])

\* C8: the run of main always completes with exit status 0: it calls the
\* generator exactly once, with n = 20, reads the last element of a non-empty
\* list, and the summary line shows the value of the line F(19).
C8_MainCompletes == []C8_Safe /\ (mainpc = "line32" ~> mainpc = "done")

C8_Witness == mainpc = "done" /\ exit = 0 /\ mainCalls = 1 /\ Len(fib_numbers) = 20

C9_Safe ==
    /\ pc = "loop" =>
           /\ n >= 2
           /\ i <= n
           /\ Len(fibonacci) = i
           /\ iters = i - 2
           /\ i < n =>
                  /\ InRange(fibonacci, i - 1)
                  /\ InRange(fibonacci, i - 2)
                  /\ At(fibonacci, i - 1) = fibonacci[Len(fibonacci)]
                  /\ At(fibonacci, i - 2) = fibonacci[Len(fibonacci) - 1]
    /\ Returning /\ n >= 2 => iters = n - 2

\* C9: with n >= 2, at the start of the iteration with index i the list has
\* exactly i elements, so fibonacci[i-1] and fibonacci[i-2] are in range and
\* are the two newest terms; the loop runs exactly n - 2 times and then ends.
C9_LoopBounds == []C9_Safe /\ (pc = "loop" ~> Returning)

C9_Witness == pc = "loop" /\ n = MaxN /\ i = n - 1 /\ iters = n - 3

\* C10: for n <= m the sequence returned for n is a prefix of the one
\* returned for m, across the branches n <= 0, n = 1 and n >= 2.
C10_Prefix ==
    /\ \A a, b \in 1 .. Len(log) :
           log[a].n <= log[b].n => IsPrefix(log[a].result, log[b].result)
    /\ Returning =>
           \A a \in 1 .. Len(log) :
               /\ log[a].n <= n => IsPrefix(log[a].result, result)
               /\ n <= log[a].n => IsPrefix(result, log[a].result)

C10_Witness ==
    /\ Len(log) = 3
    /\ \E a, b, c \in 1 .. 3 :
           /\ log[a].n <= 0 /\ log[b].n = 1 /\ log[c].n >= 3
           /\ IsPrefix(log[a].result, log[b].result)
           /\ IsPrefix(log[b].result, log[c].result)
           /\ Len(log[c].result) >= 3

====
